---- MODULE Spec2Model ----
(***************************************************************************)
(* Model of src/main.py of woog-life/potsdam-booking-scraper: one run of   *)
(* the script (module body, main, the page fetch, the row locator, the     *)
(* slot extractor, the backend PUT, the telegram alert and the exit).      *)
(*                                                                         *)
(* Representation.  A page is kept as the tree the html parser builds of   *)
(* it: a sequence of tables, each a sequence of rows (tr), each a sequence *)
(* of cells; a cell has its tag name (td or th), its data-title attribute, *)
(* its text and its anchors (title and href attributes).  Text is a        *)
(* sequence of one-character strings; an attribute is a string or None,   *)
(* a record tagged with its python type.  Days are numbered from          *)
(* 2024-10-26 (day 0), so that day 1 is the day Europe/Berlin leaves       *)
(* summer time; a datetime is a day and a minute of that day.              *)
(***************************************************************************)
EXTENDS Integers, Sequences, FiniteSets, TLC

VARIABLES
    UUID,               \* os.getenv("POTSDAM_UUID")
    API_KEY,            \* os.getenv("API_KEY")
    TOKEN,              \* os.getenv("TOKEN")
    TELEGRAM_CHATLIST,  \* os.getenv("TELEGRAM_CHATLIST")
    numDates,           \* the argument of range() in main's loop
    pc,                 \* the statement the run is at
    today,              \* main: today (a day number, at 00:00 local time)
    sale_start_time,    \* main: sale_start_time
    details,            \* main: details
    i,                  \* main: the loop index
    content,            \* main: content, as returned by get_website
    soup,               \* main: soup
    booking_row,        \* main: booking_row
    response,           \* main: response and generated_backend_url
    result,             \* what main returned (success, message), if it returned
    users,              \* send_telegram_alert: the recipients not yet served
    sent,               \* the telegram messages sent
    exitCode,           \* the exit code of the process, once it has exited
    fetched,            \* history: the date offsets requested from the shop
    puts,               \* history: the bodies PUT to the backend
    log,                \* history: the stages run, as <<stage, date offset>>
    failure,            \* history: the stage that failed, its date offset, and how
    alerted             \* history: send_telegram_alert was called

vars == <<UUID, API_KEY, TOKEN, TELEGRAM_CHATLIST, numDates, pc, today,
          sale_start_time, details, i, content, soup, booking_row, response,
          result, users, sent, exitCode, fetched, puts, log, failure, alerted>>

(***************************************************************************)
(* Bounds of the model.                                                    *)
(***************************************************************************)
MaxDates == 2       \* the largest range() argument explored
MaxCells == 4       \* the most cells of a row handed to the extractor
MaxRows == 2        \* the most rows of a table handed to the row locator
MaxTables == 2      \* the most tables of a page handed to the row locator

(***************************************************************************)
(* Python values.                                                          *)
(***************************************************************************)
NoneValue == [type |-> "NoneType", val |-> ""]
Str(s) == [type |-> "str", val |-> s]
Truthy(v) == v.type = "str" /\ v.val # ""

Upper == <<"A", "B", "C", "D", "E", "F", "G", "H", "I", "J", "K", "L", "M",
           "N", "O", "P", "Q", "R", "S", "T", "U", "V", "W", "X", "Y", "Z">>
LowerOf == <<"a", "b", "c", "d", "e", "f", "g", "h", "i", "j", "k", "l", "m",
             "n", "o", "p", "q", "r", "s", "t", "u", "v", "w", "x", "y", "z">>

\* str.lower(), character by character
LowerChar(c) ==
    IF \E k \in 1..26 : Upper[k] = c
    THEN LowerOf[CHOOSE k \in 1..26 : Upper[k] = c]
    ELSE c
Lower(s) == [k \in 1..Len(s) |-> LowerChar(s[k])]

IsSpace(c) == c \in {" ", "\t", "\n"}
Digits == <<"0", "1", "2", "3", "4", "5", "6", "7", "8", "9">>
IsDigit(c) == \E k \in 1..10 : Digits[k] = c
DigitVal(c) == (CHOOSE k \in 1..10 : Digits[k] = c) - 1

\* str.strip()
Strip(s) ==
    IF \A k \in 1..Len(s) : IsSpace(s[k]) THEN <<>>
    ELSE LET lo == CHOOSE k \in 1..Len(s) :
                        ~IsSpace(s[k]) /\ \A j \in 1..(k-1) : IsSpace(s[j])
             hi == CHOOSE k \in 1..Len(s) :
                        ~IsSpace(s[k]) /\ \A j \in (k+1)..Len(s) : IsSpace(s[j])
         IN  SubSeq(s, lo, hi)

\* sub in s
Contains(sub, s) ==
    \E k \in 0..(Len(s) - Len(sub)) : SubSeq(s, k + 1, k + Len(sub)) = sub

(***************************************************************************)
(* datetime.strptime(f"{date} {text}", "%d.%m.%Y %H:%M Uhr"), for a date   *)
(* that main formatted with %d.%m.%Y (so the date part always matches):    *)
(* the text has to match  (2[0-3]|[0-1]\d|\d):([0-5]\d|\d)\s+Uhr  in full, *)
(* letters compared without case.  A text that does not match raises       *)
(* ValueError (ok = FALSE).                                                 *)
(***************************************************************************)
DigitRun(s, from) ==
    IF from > Len(s) \/ ~IsDigit(s[from]) THEN 0
    ELSE (CHOOSE k \in from..Len(s) :
              /\ \A j \in from..k : IsDigit(s[j])
              /\ (k = Len(s) \/ ~IsDigit(s[k + 1]))) - from + 1

Number(s, from, n) ==
    IF n = 1 THEN DigitVal(s[from])
    ELSE 10 * DigitVal(s[from]) + DigitVal(s[from + 1])

SpaceRun(s, from) ==
    IF from > Len(s) \/ ~IsSpace(s[from]) THEN 0
    ELSE (CHOOSE k \in from..Len(s) :
              /\ \A j \in from..k : IsSpace(s[j])
              /\ (k = Len(s) \/ ~IsSpace(s[k + 1]))) - from + 1

strptime(date, text) ==
    LET hn == DigitRun(text, 1)
        mn == DigitRun(text, hn + 2)
        sp == SpaceRun(text, hn + 2 + mn)
        rest == SubSeq(text, hn + 2 + mn + sp, Len(text))
        matches ==
            /\ hn \in {1, 2}
            /\ Number(text, 1, hn) <= 23
            /\ Len(text) > hn
            /\ text[hn + 1] = ":"
            /\ mn \in {1, 2}
            /\ Number(text, hn + 2, mn) <= 59
            /\ sp >= 1
            /\ Lower(rest) = <<"u", "h", "r">>
    IN  IF matches
        THEN [ok |-> TRUE, day |-> date,
              minute |-> 60 * Number(text, 1, hn) + Number(text, hn + 2, mn)]
        ELSE [ok |-> FALSE, day |-> date, minute |-> 0]

(***************************************************************************)
(* _utc: the naive local time is taken as Europe/Berlin time (pytz         *)
(* localize, is_dst=False: the repeated hour 02:00-02:59 of day 1 is read  *)
(* as winter time), converted to UTC, and the zone is dropped again.       *)
(***************************************************************************)
BerlinOffset(day, minute) ==
    IF day < 1 \/ (day = 1 /\ minute < 120) THEN 120 ELSE 60

utc(input_time) ==
    LET total == 1440 * input_time.day + input_time.minute
                    - BerlinOffset(input_time.day, input_time.minute)
    IN  [day |-> total \div 1440, minute |-> total % 1440]

(***************************************************************************)
(* EventDetails and EventDetails.json: a datetime field is serialised as   *)
(* its isoformat() followed by the letter Z, the other fields as they are. *)
(***************************************************************************)
EventDetails(booking_link, begin_time, end_time, sale_start, is_available) ==
    [booking_link |-> booking_link, begin_time |-> begin_time,
     end_time |-> end_time, sale_start |-> sale_start,
     is_available |-> is_available]

IsoZ(value) == [isoformat |-> value, suffix |-> "Z"]

json(event) ==
    [booking_link |-> event.booking_link,
     begin_time |-> IsoZ(event.begin_time),
     end_time |-> IsoZ(event.end_time),
     sale_start |-> IsoZ(event.sale_start),
     is_available |-> event.is_available]

(***************************************************************************)
(* bs4 lookups on the page tree.                                           *)
(***************************************************************************)
\* the index of the first TRUE of a sequence of booleans, 0 if there is none:
\* find() returns the first match in document order, or None
FirstIndex(hits) ==
    IF \E k \in 1..Len(hits) : hits[k]
    THEN CHOOSE k \in 1..Len(hits) : hits[k] /\ \A j \in 1..(k - 1) : ~hits[j]
    ELSE 0

\* row.find_all("td")
IsTd(cell) == cell.name = "td"
FindAllTd(row) == SelectSeq(row, IsTd)

\* soup.find("td", attrs={"data-title": title}): its index in the row, 0 for None
FindTdTitled(row, title) ==
    FirstIndex([k \in 1..Len(row) |->
                    row[k].name = "td" /\ row[k].data_title = Str(title)])

\* td.find("a") is not None
HasAnchor(cell) == cell.anchors # <<>>

\* td.find("a", attrs={"title": title}): the anchor, or None
FindAnchorTitled(cell, title) ==
    LET k == FirstIndex([j \in 1..Len(cell.anchors) |->
                            cell.anchors[j].title = Str(title)])
    IN  IF k = 0 THEN [type |-> "NoneType", href |-> NoneValue]
        ELSE [type |-> "Tag", href |-> cell.anchors[k].href]

(***************************************************************************)
(* extract_table_row: the first table of the page, its rows, and the first *)
(* row with a td; None without a table, with fewer than two rows, or       *)
(* without any such row.  The result names the row by its index in the     *)
(* table (0 for None).                                                     *)
(***************************************************************************)
NoRow == [type |-> "NoneType", index |-> 0, row |-> <<>>]

\* extract_table_row with the row count compared to 1 instead of 2
extract_table_row_one_row(html) ==
    IF html = <<>> THEN NoRow
    ELSE LET rows == html[1]
             k == FirstIndex([j \in 1..Len(rows) |-> FindAllTd(rows[j]) # <<>>])
         IN  IF Len(rows) < 1 THEN NoRow
             ELSE IF k = 0 THEN NoRow
             ELSE [type |-> "Tag", index |-> k, row |-> rows[k]]

extract_table_row(html) ==
    IF html = <<>> THEN NoRow
    ELSE LET rows == html[1]
             k == FirstIndex([j \in 1..Len(rows) |-> FindAllTd(rows[j]) # <<>>])
         IN  IF Len(rows) < 2 THEN NoRow
             ELSE IF k = 0 THEN NoRow
             ELSE [type |-> "Tag", index |-> k, row |-> rows[k]]

(***************************************************************************)
(* get_booking_information: None when one of the three labelled cells is   *)
(* missing; an exception when a time does not parse (ValueError) or when   *)
(* the first entry of booking_link_a is None (AttributeError); the tuple   *)
(* (start_slot, end_slot, is_available, booking_link) otherwise.           *)
(***************************************************************************)
Ausverkauft == <<"a", "u", "s", "v", "e", "r", "k", "a", "u", "f", "t">>
NoTime == [day |-> 0, minute |-> 0]

Outcome(kind, start_slot, end_slot, is_available, booking_link) ==
    [kind |-> kind, start_slot |-> start_slot, end_slot |-> end_slot,
     is_available |-> is_available, booking_link |-> booking_link]

\* booking_link_a: for every td with an anchor, its first anchor titled
\* "Zur Tarifauswahl", or None
BookingLinkA(row) ==
    LET tds == SelectSeq(FindAllTd(row), HasAnchor)
    IN  [k \in 1..Len(tds) |-> FindAnchorTitled(tds[k], "Zur Tarifauswahl")]

\* get_booking_information with available_slots_col left out of the check of
\* line 146: its .text then raises AttributeError on None
get_booking_information_two_cells(row, date) ==
    LET start_slot_col == FindTdTitled(row, "Von")
        end_slot_col == FindTdTitled(row, "Bis")
        available_slots_col == FindTdTitled(row, "Freie E-Tickets")
        booking_link_a == BookingLinkA(row)
        start_time == strptime(date, Strip(row[start_slot_col].text))
        end_time == strptime(date, Strip(row[end_slot_col].text))
        is_available ==
            /\ booking_link_a # <<>>
            /\ ~Contains(Ausverkauft, Lower(row[available_slots_col].text))
    IN  IF ~(start_slot_col # 0 /\ end_slot_col # 0)
        THEN Outcome("None", NoTime, NoTime, FALSE, NoneValue)
        ELSE IF ~start_time.ok \/ ~end_time.ok
        THEN Outcome("ValueError", NoTime, NoTime, FALSE, NoneValue)
        ELSE IF available_slots_col = 0
        THEN Outcome("AttributeError", NoTime, NoTime, FALSE, NoneValue)
        ELSE IF is_available /\ booking_link_a[1].type = "NoneType"
        THEN Outcome("AttributeError", NoTime, NoTime, FALSE, NoneValue)
        ELSE Outcome("tuple", utc(start_time), utc(end_time), is_available,
                     IF is_available THEN booking_link_a[1].href
                     ELSE Str("https://not.available"))

get_booking_information(row, date) ==
    LET start_slot_col == FindTdTitled(row, "Von")
        end_slot_col == FindTdTitled(row, "Bis")
        available_slots_col == FindTdTitled(row, "Freie E-Tickets")
        booking_link_a == BookingLinkA(row)
        start_time == strptime(date, Strip(row[start_slot_col].text))
        end_time == strptime(date, Strip(row[end_slot_col].text))
        is_available ==
            /\ booking_link_a # <<>>
            /\ ~Contains(Ausverkauft, Lower(row[available_slots_col].text))
    IN  IF ~(start_slot_col # 0 /\ end_slot_col # 0 /\ available_slots_col # 0)
        THEN Outcome("None", NoTime, NoTime, FALSE, NoneValue)
        ELSE IF ~start_time.ok \/ ~end_time.ok
        THEN Outcome("ValueError", NoTime, NoTime, FALSE, NoneValue)
        ELSE IF is_available /\ booking_link_a[1].type = "NoneType"
        THEN Outcome("AttributeError", NoTime, NoTime, FALSE, NoneValue)
        ELSE Outcome("tuple", utc(start_time), utc(end_time), is_available,
                     IF is_available THEN booking_link_a[1].href
                     ELSE Str("https://not.available"))

(***************************************************************************)
(* The pages, rows and cells the model draws its inputs from.              *)
(***************************************************************************)
Cell(name, data_title, text, anchors) ==
    [name |-> name, data_title |-> data_title, text |-> text, anchors |-> anchors]
Anchor(title, href) == [title |-> title, href |-> href]

Text0900 == <<" ", "0", "9", ":", "0", "0", " ", "U", "h", "r", " ">>
Text1000 == <<"1", "0", ":", "0", "0", " ", "U", "h", "r">>
TextNoColon == <<"9", " ", "U", "h", "r">>
TextFrei == <<"1", "2", " ", "f", "r", "e", "i">>
TextSold == <<"A", "u", "s", "v", "e", "r", "k", "a", "u", "f", "t">>

VonCell == Cell("td", Str("Von"), Text0900, <<>>)
VonBadCell == Cell("td", Str("Von"), TextNoColon, <<>>)
BisCell == Cell("td", Str("Bis"), Text1000, <<>>)
FreiCell == Cell("td", Str("Freie E-Tickets"), TextFrei, <<>>)
SoldCell == Cell("td", Str("Freie E-Tickets"), TextSold, <<>>)
LinkCell ==
    Cell("td", NoneValue, <<>>, <<Anchor(Str("Zur Tarifauswahl"), Str("https://shop/1"))>>)
LinkNoHrefCell ==
    Cell("td", NoneValue, <<>>, <<Anchor(Str("Zur Tarifauswahl"), NoneValue)>>)
OtherLinkCell ==
    Cell("td", NoneValue, <<>>, <<Anchor(Str("Info"), Str("https://shop/info"))>>)
HeaderCell == Cell("th", Str("Von"), <<"V", "o", "n">>, <<>>)

Cells == {VonCell, VonBadCell, BisCell, FreiCell, SoldCell, LinkCell,
          LinkNoHrefCell, OtherLinkCell, HeaderCell}

SeqUpTo(S, n) == UNION {[1..k -> S] : k \in 0..n}

\* the rows handed to the extractor
Rows == SeqUpTo(Cells, MaxCells)

\* the rows of the pages handed to the row locator and served to the run
HeaderRow == <<HeaderCell, HeaderCell>>
GoodRow == <<VonCell, BisCell, FreiCell, LinkCell>>
SoldRow == <<VonCell, BisCell, SoldCell, LinkCell>>
NoBisRow == <<VonCell, FreiCell, LinkCell>>
BadTimeRow == <<VonBadCell, BisCell, FreiCell, LinkCell>>
OtherLinkRow == <<VonCell, BisCell, FreiCell, OtherLinkCell>>
PageRows == {HeaderRow, GoodRow, SoldRow, NoBisRow, BadTimeRow, OtherLinkRow}

\* the pages handed to the row locator
MixedRow == <<HeaderCell, VonCell>>
LocatorRows == {HeaderRow, MixedRow, GoodRow}
Pages == SeqUpTo(SeqUpTo(LocatorRows, MaxRows), MaxTables)

\* the pages the shop serves to a run: at most one table of at most two rows
ServedPages == SeqUpTo(SeqUpTo(PageRows, 2), 1)

(***************************************************************************)
(* Values of the run.                                                      *)
(***************************************************************************)
\* a message: the fixed text and what the f-string puts into it
Message(text, page, events, body) ==
    [text |-> text, page |-> page, events |-> events, body |-> body]
NoMessage == Message("", <<>>, <<>>, "")

\* "/".join([BACKEND_URL, BACKEND_PATH.format(UUID)]), with the default settings
BackendUrl(uuid) == [base |-> "http://api:80", path |-> "lake/{}/booking", uuid |-> uuid.val]

NotReturned == [returned |-> FALSE, success |-> FALSE, message |-> NoMessage]
Returned(success, message) ==
    [returned |-> TRUE, success |-> success, message |-> message]

NoResponse == [type |-> "unset", ok |-> FALSE, content |-> "", url |-> BackendUrl(NoneValue)]
NoFailure == [stage |-> "none", date |-> 0, kind |-> "none"]
Failure(stage, date, kind) == [stage |-> stage, date |-> date, kind |-> kind]

\* os.getenv of a variable holding a list of chat ids
EnvNone == [type |-> "NoneType", val |-> <<>>]
EnvStr(chars) == [type |-> "str", val |-> chars]

\* str.split(",")
RECURSIVE Split(_)
Split(s) ==
    LET k == FirstIndex([j \in 1..Len(s) |-> s[j] = ","])
    IN  IF k = 0 THEN <<s>>
        ELSE <<SubSeq(s, 1, k - 1)>> \o Split(SubSeq(s, k + 1, Len(s)))

DefaultChatlist == <<"1", "3", "9", "6", "5", "6", "4", "2", "8">>

(***************************************************************************)
(* The environment a run starts in.                                        *)
(***************************************************************************)
InitEnv ==
    /\ UUID \in {NoneValue, Str("uuid")}
    /\ API_KEY \in {NoneValue, Str(""), Str("key")}
    /\ TOKEN \in {NoneValue, Str("token")}
    /\ TELEGRAM_CHATLIST \in {EnvNone, EnvStr(<<"7">>), EnvStr(<<"7", ",", "8">>)}

InitRun ==
    /\ pc = "main"
    /\ today \in 0..1
    /\ sale_start_time = NoTime
    /\ details = <<>>
    /\ i = 0
    /\ content = <<>>
    /\ soup = <<>>
    /\ booking_row = NoRow
    /\ response = NoResponse
    /\ result = NotReturned
    /\ users = <<>>
    /\ sent = <<>>
    /\ exitCode = -1
    /\ fetched = <<>>
    /\ puts = <<>>
    /\ log = <<>>
    /\ failure = NoFailure
    /\ alerted = FALSE

\* range(1) in the place of range(0)
RangeOfOneDate == 0 + 1

\* range(0): the number of dates main's loop visits
RangeLen == 0

\* the script as written
Init == InitEnv /\ InitRun /\ numDates = RangeLen

\* the script with the loop's range as a parameter
InitRange == InitEnv /\ InitRun /\ numDates \in 0..MaxDates

\* MainConfig without the elif of lines 193-195
MainConfigNoKeyCheck ==
    /\ pc = "main"
    /\ IF ~Truthy(UUID)
       THEN /\ result' = Returned(FALSE, Message("POTSDAM_UUID not defined", <<>>, <<>>, ""))
            /\ failure' = Failure("config", 0, "configuration")
            /\ pc' = "module"
            /\ UNCHANGED <<sale_start_time, details>>
       ELSE /\ sale_start_time' = utc([day |-> today, minute |-> 0])
            /\ details' = <<>>
            /\ pc' = "for"
            /\ UNCHANGED <<result, failure>>
    /\ UNCHANGED <<UUID, API_KEY, TOKEN, TELEGRAM_CHATLIST, numDates, today, i,
                   content, soup, booking_row, response, users, sent, exitCode,
                   fetched, puts, log, alerted>>

(***************************************************************************)
(* main, lines 190-200: the two required settings, then today,             *)
(* sale_start_time and the empty list of details.                          *)
(***************************************************************************)
MainConfig ==
    /\ pc = "main"
    /\ IF ~Truthy(UUID)
       THEN /\ result' = Returned(FALSE, Message("POTSDAM_UUID not defined", <<>>, <<>>, ""))
            /\ failure' = Failure("config", 0, "configuration")
            /\ pc' = "module"
            /\ UNCHANGED <<sale_start_time, details>>
       ELSE IF ~Truthy(API_KEY)
       THEN /\ result' = Returned(FALSE, Message("API_KEY not defined", <<>>, <<>>, ""))
            /\ failure' = Failure("config", 0, "configuration")
            /\ pc' = "module"
            /\ UNCHANGED <<sale_start_time, details>>
       ELSE /\ sale_start_time' = utc([day |-> today, minute |-> 0])
            /\ details' = <<>>
            /\ pc' = "for"
            /\ UNCHANGED <<result, failure>>
    /\ UNCHANGED <<UUID, API_KEY, TOKEN, TELEGRAM_CHATLIST, numDates, today, i,
                   content, soup, booking_row, response, users, sent, exitCode,
                   fetched, puts, log, alerted>>

(***************************************************************************)
(* main, line 202: the loop head; after the last date the run goes on to   *)
(* line 231.                                                               *)
(***************************************************************************)
MainFor ==
    /\ pc = "for"
    /\ pc' = IF i < numDates THEN "get_website" ELSE "send_data_to_backend"
    /\ UNCHANGED <<UUID, API_KEY, TOKEN, TELEGRAM_CHATLIST, numDates, today,
                   sale_start_time, details, i, content, soup, booking_row,
                   response, result, users, sent, exitCode, fetched, puts, log,
                   failure, alerted>>

(***************************************************************************)
(* main, lines 203-208, and get_website: one GET for the date today + i.   *)
(* The shop answers with a status and a page, or requests.get raises       *)
(* (nothing catches it).                                                   *)
(***************************************************************************)
get_website(status, page) == [content |-> page, success |-> status = 200]

MainGetWebsite ==
    /\ pc = "get_website"
    /\ fetched' = Append(fetched, i)
    /\ log' = Append(log, <<"fetch", i>>)
    /\ \E reply \in {"response", "ConnectionError"}, status \in {200, 404},
          page \in ServedPages :
        IF reply = "ConnectionError"
        THEN /\ status = 404 /\ page = <<>>
             /\ failure' = Failure("fetch", i, "ConnectionError")
             /\ pc' = "raised"
             /\ UNCHANGED <<content, result>>
        ELSE LET got == get_website(status, page)
             IN  /\ content' = got.content
                 /\ IF ~got.success
                    THEN /\ result' = Returned(FALSE,
                                Message("Couldn't retrieve website: ", got.content, <<>>, ""))
                         /\ failure' = Failure("fetch", i, "not 200")
                         /\ pc' = "module"
                    ELSE /\ pc' = "parse"
                         /\ UNCHANGED <<result, failure>>
    /\ UNCHANGED <<UUID, API_KEY, TOKEN, TELEGRAM_CHATLIST, numDates, today,
                   sale_start_time, details, i, soup, booking_row, response,
                   users, sent, exitCode, puts, alerted>>

(***************************************************************************)
(* main, line 210: parse_website_xml builds the tree of the page.          *)
(***************************************************************************)
MainParse ==
    /\ pc = "parse"
    /\ soup' = content
    /\ log' = Append(log, <<"parse", i>>)
    /\ pc' = "extract_table_row"
    /\ UNCHANGED <<UUID, API_KEY, TOKEN, TELEGRAM_CHATLIST, numDates, today,
                   sale_start_time, details, i, content, booking_row, response,
                   result, users, sent, exitCode, fetched, puts, failure, alerted>>

\* MainExtractTableRow with continue in the place of the return of line 214
MainExtractTableRowContinue ==
    /\ pc = "extract_table_row"
    /\ booking_row' = extract_table_row(soup)
    /\ log' = Append(log, <<"locate", i>>)
    /\ IF booking_row'.type = "NoneType"
       THEN /\ failure' = Failure("locate", i, "no row")
            /\ i' = i + 1
            /\ pc' = "for"
       ELSE /\ pc' = "get_booking_information"
            /\ UNCHANGED <<failure, i>>
    /\ UNCHANGED <<UUID, API_KEY, TOKEN, TELEGRAM_CHATLIST, numDates, today,
                   sale_start_time, details, content, soup, response, result,
                   users, sent, exitCode, fetched, puts, alerted>>

(***************************************************************************)
(* main, lines 211-214: the row locator.                                   *)
(***************************************************************************)
MainExtractTableRow ==
    /\ pc = "extract_table_row"
    /\ booking_row' = extract_table_row(soup)
    /\ log' = Append(log, <<"locate", i>>)
    /\ IF booking_row'.type = "NoneType"
       THEN /\ result' = Returned(FALSE, Message("Couldn't find correct row", <<>>, <<>>, ""))
            /\ failure' = Failure("locate", i, "no row")
            /\ pc' = "module"
       ELSE /\ pc' = "get_booking_information"
            /\ UNCHANGED <<result, failure>>
    /\ UNCHANGED <<UUID, API_KEY, TOKEN, TELEGRAM_CHATLIST, numDates, today,
                   sale_start_time, details, i, content, soup, response, users,
                   sent, exitCode, fetched, puts, alerted>>

\* MainGetBookingInformation with continue in the place of the return of line 221
MainGetBookingInformationContinue ==
    /\ pc = "get_booking_information"
    /\ log' = Append(log, <<"extract", i>>)
    /\ LET booking_information == get_booking_information(booking_row.row, today + i)
       IN  IF booking_information.kind \in {"ValueError", "AttributeError"}
           THEN /\ failure' = Failure("extract", i, booking_information.kind)
                /\ pc' = "raised"
                /\ UNCHANGED <<details, i>>
           ELSE IF booking_information.kind = "None"
           THEN /\ failure' = Failure("extract", i, "missing cell")
                /\ i' = i + 1
                /\ pc' = "for"
                /\ UNCHANGED details
           ELSE /\ details' = Append(details,
                        EventDetails(booking_information.booking_link,
                                     booking_information.start_slot,
                                     booking_information.end_slot,
                                     sale_start_time,
                                     booking_information.is_available))
                /\ i' = i + 1
                /\ pc' = "for"
                /\ UNCHANGED failure
    /\ UNCHANGED <<UUID, API_KEY, TOKEN, TELEGRAM_CHATLIST, numDates, today,
                   sale_start_time, content, soup, booking_row, response, result,
                   users, sent, exitCode, fetched, puts, alerted>>

(***************************************************************************)
(* main, lines 216-229: the slot extractor for the date today + i, and the *)
(* EventDetails appended to details.  An exception of the extractor leaves *)
(* main (nothing catches it).                                              *)
(***************************************************************************)
MainGetBookingInformation ==
    /\ pc = "get_booking_information"
    /\ log' = Append(log, <<"extract", i>>)
    /\ LET booking_information == get_booking_information(booking_row.row, today + i)
       IN  IF booking_information.kind \in {"ValueError", "AttributeError"}
           THEN /\ failure' = Failure("extract", i, booking_information.kind)
                /\ pc' = "raised"
                /\ UNCHANGED <<result, details, i>>
           ELSE IF booking_information.kind = "None"
           THEN /\ result' = Returned(FALSE,
                        Message("Couldn't retrieve water information from ", soup, <<>>, ""))
                /\ failure' = Failure("extract", i, "missing cell")
                /\ pc' = "module"
                /\ UNCHANGED <<details, i>>
           ELSE /\ details' = Append(details,
                        EventDetails(booking_information.booking_link,
                                     booking_information.start_slot,
                                     booking_information.end_slot,
                                     sale_start_time,
                                     booking_information.is_available))
                /\ i' = i + 1
                /\ pc' = "for"
                /\ UNCHANGED <<result, failure>>
    /\ UNCHANGED <<UUID, API_KEY, TOKEN, TELEGRAM_CHATLIST, numDates, today,
                   sale_start_time, content, soup, booking_row, response, users,
                   sent, exitCode, fetched, puts, alerted>>

(***************************************************************************)
(* main, line 231, and send_data_to_backend: one PUT of the variation and  *)
(* the serialised details.  The backend answers ok or not ok, or the PUT   *)
(* raises a connection error, which is caught: (None, url).                *)
(***************************************************************************)
send_data_to_backend(uuid, reply) ==
    IF reply = "ConnectionError"
    THEN [type |-> "NoneType", ok |-> FALSE, content |-> "", url |-> BackendUrl(uuid)]
    ELSE [type |-> "Response", ok |-> reply = "ok", content |-> reply,
          url |-> BackendUrl(uuid)]

MainSendDataToBackend ==
    /\ pc = "send_data_to_backend"
    /\ puts' = Append(puts, [variation |-> "Stadtbad Babelsberg",
                             events |-> [k \in 1..Len(details) |-> json(details[k])]])
    /\ \E reply \in {"ok", "rejected", "ConnectionError"} :
            response' = send_data_to_backend(UUID, reply)
    /\ pc' = "check_response"
    /\ UNCHANGED <<UUID, API_KEY, TOKEN, TELEGRAM_CHATLIST, numDates, today,
                   sale_start_time, details, i, content, soup, booking_row,
                   result, users, sent, exitCode, fetched, log, failure, alerted>>

(***************************************************************************)
(* main, lines 233-238: a missing or not-ok response is a failure whose    *)
(* message quotes response.content; with response None that attribute      *)
(* access raises AttributeError (nothing catches it).                      *)
(***************************************************************************)
MainCheckResponse ==
    /\ pc = "check_response"
    /\ IF response.type = "NoneType"
       THEN /\ failure' = Failure("publish", 0, "ConnectionError")
            /\ pc' = "raised"
            /\ UNCHANGED result
       ELSE IF ~response.ok
       THEN /\ result' = Returned(FALSE,
                    Message("Failed to put data", <<>>, details, response.content))
            /\ failure' = Failure("publish", 0, "not ok")
            /\ pc' = "module"
       ELSE /\ result' = Returned(TRUE, NoMessage)
            /\ pc' = "module"
            /\ UNCHANGED failure
    /\ UNCHANGED <<UUID, API_KEY, TOKEN, TELEGRAM_CHATLIST, numDates, today,
                   sale_start_time, details, i, content, soup, booking_row,
                   response, users, sent, exitCode, fetched, puts, log, alerted>>

(***************************************************************************)
(* The module body, lines 243-248: a run that failed reads TOKEN and       *)
(* TELEGRAM_CHATLIST (or the default recipient) and calls the alert; a run *)
(* that succeeded reaches the end of the script.                           *)
(***************************************************************************)
ModuleBody ==
    /\ pc = "module"
    /\ IF ~result.success
       THEN /\ users' = Split(IF TELEGRAM_CHATLIST.type = "str" /\ TELEGRAM_CHATLIST.val # <<>>
                              THEN TELEGRAM_CHATLIST.val ELSE DefaultChatlist)
            /\ pc' = "send_telegram_alert"
            /\ UNCHANGED exitCode
       ELSE /\ exitCode' = 0
            /\ pc' = "exited"
            /\ UNCHANGED users
    /\ UNCHANGED <<UUID, API_KEY, TOKEN, TELEGRAM_CHATLIST, numDates, today,
                   sale_start_time, details, i, content, soup, booking_row,
                   response, result, sent, fetched, puts, log, failure,
                   alerted>>

(***************************************************************************)
(* send_telegram_alert, lines 73-80: without a token nothing is sent.      *)
(***************************************************************************)
SendTelegramAlert ==
    /\ pc = "send_telegram_alert"
    /\ alerted' = TRUE
    /\ pc' = IF ~Truthy(TOKEN) THEN "sys_exit" ELSE "send_message"
    /\ UNCHANGED <<UUID, API_KEY, TOKEN, TELEGRAM_CHATLIST, numDates, today,
                   sale_start_time, details, i, content, soup, booking_row,
                   response, result, users, sent, exitCode, fetched, puts, log,
                   failure>>

(***************************************************************************)
(* send_telegram_alert, lines 82-83: one message per recipient; a send     *)
(* that raises leaves the script (nothing catches it).                     *)
(***************************************************************************)
SendMessage ==
    /\ pc = "send_message"
    /\ IF users = <<>>
       THEN /\ pc' = "sys_exit"
            /\ UNCHANGED <<users, sent>>
       ELSE \E delivered \in BOOLEAN :
               IF delivered
               THEN /\ sent' = Append(sent, [chat_id |-> Head(users),
                                             text |-> "Error while executing: ",
                                             message |-> result.message])
                    /\ users' = Tail(users)
                    /\ pc' = "send_message"
               ELSE /\ pc' = "raised"
                    /\ UNCHANGED <<users, sent>>
    /\ UNCHANGED <<UUID, API_KEY, TOKEN, TELEGRAM_CHATLIST, numDates, today,
                   sale_start_time, details, i, content, soup, booking_row,
                   response, result, exitCode, fetched, puts, log, failure,
                   alerted>>

(***************************************************************************)
(* Line 249: sys.exit(1).                                                  *)
(***************************************************************************)
SysExit ==
    /\ pc = "sys_exit"
    /\ exitCode' = 1
    /\ pc' = "exited"
    /\ UNCHANGED <<UUID, API_KEY, TOKEN, TELEGRAM_CHATLIST, numDates, today,
                   sale_start_time, details, i, content, soup, booking_row,
                   response, result, users, sent, fetched, puts, log, failure,
                   alerted>>

(***************************************************************************)
(* An exception nothing catches: the interpreter prints the traceback and  *)
(* the process ends with exit code 1.                                      *)
(***************************************************************************)
Uncaught ==
    /\ pc = "raised"
    /\ exitCode' = 1
    /\ pc' = "exited"
    /\ UNCHANGED <<UUID, API_KEY, TOKEN, TELEGRAM_CHATLIST, numDates, today,
                   sale_start_time, details, i, content, soup, booking_row,
                   response, result, users, sent, fetched, puts, log, failure,
                   alerted>>

(***************************************************************************)
(* Specifications.                                                         *)
(***************************************************************************)
\* the script as written: range(0) leaves the loop body unreachable
Next ==
    \/ MainConfig
    \/ MainFor
    \/ MainSendDataToBackend
    \/ MainCheckResponse
    \/ ModuleBody
    \/ SendTelegramAlert
    \/ SendMessage
    \/ SysExit
    \/ Uncaught

Spec == Init /\ [][Next]_vars

\* the script with the loop's range as a parameter
NextRange ==
    \/ Next
    \/ MainGetWebsite
    \/ MainParse
    \/ MainExtractTableRow
    \/ MainGetBookingInformation

SpecRange == InitRange /\ [][NextRange]_vars

\* the row locator on every page of Pages: the run stands at line 211
InitLocate ==
    /\ UUID = Str("uuid") /\ API_KEY = Str("key") /\ TOKEN = NoneValue
    /\ TELEGRAM_CHATLIST = EnvNone
    /\ numDates = 1
    /\ pc = "extract_table_row"
    /\ today \in 0..1
    /\ sale_start_time = utc([day |-> today, minute |-> 0])
    /\ details = <<>>
    /\ i = 0
    /\ content \in Pages
    /\ soup = content
    /\ booking_row = NoRow
    /\ response = NoResponse
    /\ result = NotReturned
    /\ users = <<>>
    /\ sent = <<>>
    /\ exitCode = -1
    /\ fetched = <<0>>
    /\ puts = <<>>
    /\ log = << <<"fetch", 0>>, <<"parse", 0>> >>
    /\ failure = NoFailure
    /\ alerted = FALSE

SpecLocate == InitLocate /\ [][MainExtractTableRow]_vars

\* the slot extractor on every row of Rows that the row locator can return:
\* the run stands at line 216
InitExtract ==
    /\ UUID = Str("uuid") /\ API_KEY = Str("key") /\ TOKEN = NoneValue
    /\ TELEGRAM_CHATLIST = EnvNone
    /\ numDates = 1
    /\ pc = "get_booking_information"
    /\ today \in 0..1
    /\ sale_start_time = utc([day |-> today, minute |-> 0])
    /\ details = <<>>
    /\ i = 0
    /\ \E row \in Rows :
        /\ FindAllTd(row) # <<>>
        /\ content = << <<HeaderRow, row>> >>
    /\ soup = content
    /\ booking_row = extract_table_row(soup)
    /\ response = NoResponse
    /\ result = NotReturned
    /\ users = <<>>
    /\ sent = <<>>
    /\ exitCode = -1
    /\ fetched = <<0>>
    /\ puts = <<>>
    /\ log = << <<"fetch", 0>>, <<"parse", 0>>, <<"locate", 0>> >>
    /\ failure = NoFailure
    /\ alerted = FALSE

SpecExtract == InitExtract /\ [][MainGetBookingInformation]_vars

(***************************************************************************)
(* Properties.                                                             *)
(***************************************************************************)
BeforeLoop == {"main", "for"}
InLoopBody == {"get_website", "parse", "extract_table_row", "get_booking_information"}
AfterMain == {"module", "send_telegram_alert", "send_message", "sys_exit", "exited"}
Stages == <<"fetch", "parse", "locate", "extract">>
DateFailed == failure.stage \in {"fetch", "locate", "extract"}
Ran(stage, date) == \E k \in 1..Len(log) : log[k] = <<stage, date>>

\* C1: all-or-nothing publish.  A PUT is performed only when every date of
\* the range went through fetch, parse, locate and extract and gave its slot,
\* and its events are exactly those slots; once a stage has failed for a date
\* no PUT is performed, and what main returns carries no slot.
AllOrNothingPublish ==
    /\ puts # <<>> =>
          /\ ~DateFailed
          /\ Len(details) = numDates
          /\ \A d \in 0..(numDates - 1) : \A k \in 1..4 : Ran(Stages[k], d)
          /\ Len(puts) = 1
          /\ puts[1].events = [k \in 1..Len(details) |-> json(details[k])]
    /\ DateFailed =>
          /\ puts = <<>>
          /\ pc \notin {"send_data_to_backend", "check_response"}
          /\ ~result.success
          /\ result.message.events = <<>>
          /\ \A k \in 1..Len(sent) : sent[k].message.events = <<>>

\* C1 witness: the second date failed extraction after the first gave its
\* slot, and the run ended without a PUT
AllOrNothingPublishWitness ==
    /\ pc = "exited"
    /\ failure = Failure("extract", 1, "missing cell")
    /\ Len(details) = 1
    /\ puts = <<>>

\* C2: exit contract.  The process exits with code 0 only when every date
\* was extracted and the backend answered the PUT ok; after each failure of
\* the taxonomy the alert is attempted and the process exits with code 1.
TaxonomyFailure ==
    \/ failure.kind \in {"configuration", "not 200", "no row", "missing cell",
                         "ValueError", "not ok"}
    \/ failure = Failure("publish", 0, "ConnectionError")

ExitContract ==
    pc = "exited" =>
        /\ exitCode = 0 =>
              /\ Len(details) = numDates
              /\ response.type = "Response" /\ response.ok
        /\ TaxonomyFailure => alerted /\ exitCode = 1

\* C3: publish failures are reported, not raised.  After a PUT that raised a
\* connection error send_data_to_backend has returned (None, url); after a
\* PUT that was answered not ok it has returned that response; in both cases
\* main returns (False, message), and the alert is called before the exit.
PublishFailureReported ==
    /\ \A reply \in {"rejected", "ConnectionError"} :
          /\ send_data_to_backend(UUID, reply).url = BackendUrl(UUID)
          /\ send_data_to_backend(UUID, reply).type =
                IF reply = "ConnectionError" THEN "NoneType" ELSE "Response"
    /\ (puts # <<>> /\ pc # "check_response"
            /\ (response.type = "NoneType" \/ ~response.ok)) =>
          /\ pc \in AfterMain
          /\ result.returned /\ ~result.success
          /\ pc = "exited" => alerted

\* C4: configuration fail-fast.  Without POTSDAM_UUID or without API_KEY the
\* run fetches no page and performs no PUT, main returns the configuration
\* failure, and the process exits with code 1.
ConfigurationFailFast ==
    (~Truthy(UUID) \/ ~Truthy(API_KEY)) =>
        /\ fetched = <<>> /\ puts = <<>> /\ log = <<>>
        /\ pc \in {"main", "raised"} \cup AfterMain
        /\ pc # "main" =>
              /\ result.returned /\ ~result.success
              /\ result.message.text \in {"POTSDAM_UUID not defined", "API_KEY not defined"}
        /\ pc = "exited" => exitCode = 1

\* C4 witness: a run over a range of two dates without API_KEY has exited
ConfigurationFailFastWitness ==
    /\ Truthy(UUID) /\ API_KEY = NoneValue
    /\ numDates = 2
    /\ pc = "exited" /\ exitCode = 1 /\ alerted

\* the row handed to the extractor, and what the claims say of it
TheRow == booking_row.row
HasThreeCells(row) ==
    \A title \in {"Von", "Bis", "Freie E-Tickets"} :
        \E k \in 1..Len(row) : row[k].name = "td" /\ row[k].data_title = Str(title)
CellTitled(row, title) ==
    row[CHOOSE k \in 1..Len(row) :
            /\ row[k].name = "td" /\ row[k].data_title = Str(title)
            /\ \A j \in 1..(k - 1) : ~(row[j].name = "td" /\ row[j].data_title = Str(title))]
WellFormedTimes(row, date) ==
    /\ strptime(date, Strip(CellTitled(row, "Von").text)).ok
    /\ strptime(date, Strip(CellTitled(row, "Bis").text)).ok
\* the hrefs of the anchors titled "Zur Tarifauswahl" of the row, in document order
RECURSIVE CandidateHrefs(_)
CandidateHrefs(row) ==
    IF row = <<>> THEN <<>>
    ELSE LET IsCandidate(a) == a.title = Str("Zur Tarifauswahl")
             found == SelectSeq(IF Head(row).name = "td" THEN Head(row).anchors ELSE <<>>,
                                IsCandidate)
         IN  [k \in 1..Len(found) |-> found[k].href] \o CandidateHrefs(Tail(row))
SoldOut(row) ==
    Contains(Ausverkauft, Lower(CellTitled(row, "Freie E-Tickets").text))
Extracted == pc = "for" /\ Len(details) = 1

\* C5: link/availability invariant.  A slot the extractor returned that is
\* not available carries the sentinel link; one that is available carries
\* the non-empty href of the first anchor titled "Zur Tarifauswahl" of the row.
LinkAvailabilityInvariant ==
    Extracted =>
        LET slot == details[1]
        IN  /\ ~slot.is_available => slot.booking_link = Str("https://not.available")
            /\ slot.is_available =>
                  /\ Truthy(slot.booking_link)
                  /\ CandidateHrefs(TheRow) # <<>>
                  /\ slot.booking_link = CandidateHrefs(TheRow)[1]

\* C6: availability rule.  For a row with the three cells and well-formed
\* times the extractor returns, and is_available is true exactly when the row
\* has an anchor titled "Zur Tarifauswahl" and its tickets cell, lower-cased,
\* does not contain "ausverkauft".
AvailabilityRule ==
    (pc # "get_booking_information" /\ HasThreeCells(TheRow)
        /\ WellFormedTimes(TheRow, today + i)) =>
        /\ Extracted
        /\ details[1].is_available =
              (CandidateHrefs(TheRow) # <<>> /\ ~SoldOut(TheRow))

\* C7: missing-cell failure.  For a row that lacks one of the three cells
\* get_booking_information returns None without raising, no EventDetails is
\* built and main returns the failure.
MissingCellFailure ==
    (pc # "get_booking_information" /\ ~HasThreeCells(TheRow)) =>
        /\ failure = Failure("extract", i, "missing cell")
        /\ details = <<>>
        /\ pc = "module"
        /\ result = Returned(FALSE,
                Message("Couldn't retrieve water information from ", soup, <<>>, ""))

\* C7 witness: a row without the Bis cell, with a malformed start time and an
\* anchor of another title, was handed to the extractor and main returned
MissingCellFailureWitness ==
    /\ pc = "module"
    /\ ~(\E k \in 1..Len(TheRow) : TheRow[k].data_title = Str("Bis"))
    /\ \E k \in 1..Len(TheRow) : TheRow[k] = VonBadCell
    /\ \E k \in 1..Len(TheRow) : TheRow[k] = OtherLinkCell
    /\ ~result.success /\ result.returned

\* C8: row locator.  Only the first table counts; there is no row without a
\* table, with fewer than two rows in it, or with no row holding a td;
\* otherwise the row is the first row of that table that holds a td.
HoldsTd(row) == \E k \in 1..Len(row) : row[k].name = "td"

RowLocatorResult ==
    pc # "extract_table_row" =>
        IF soup = <<>> \/ Len(soup[1]) < 2 \/ \A k \in 1..Len(soup[1]) : ~HoldsTd(soup[1][k])
        THEN /\ booking_row = NoRow
             /\ pc = "module"
             /\ result = Returned(FALSE, Message("Couldn't find correct row", <<>>, <<>>, ""))
        ELSE /\ booking_row.type = "Tag"
             /\ HoldsTd(soup[1][booking_row.index])
             /\ \A j \in 1..(booking_row.index - 1) : ~HoldsTd(soup[1][j])
             /\ booking_row.row = soup[1][booking_row.index]
             /\ pc = "get_booking_information"

\* C8 witness: two rows of the first table hold data cells, a second table
\* follows, and the locator returned the first of the two rows
RowLocatorResultWitness ==
    /\ pc = "get_booking_information"
    /\ Len(soup) = 2
    /\ soup[1] = <<MixedRow, GoodRow>>
    /\ booking_row.index = 1

\* C9: halt on first failure.  Dates are visited in increasing order, each
\* fetched once, with fetch, parse, locate, extract in that order; once a
\* stage has failed for a date that stage is the last one run, and the
\* message main returns is that stage's message.
StageMessage ==
    CASE failure.stage = "fetch" -> Message("Couldn't retrieve website: ", content, <<>>, "")
      [] failure.stage = "locate" -> Message("Couldn't find correct row", <<>>, <<>>, "")
      [] failure.stage = "extract" ->
            Message("Couldn't retrieve water information from ", soup, <<>>, "")

EmptyDateRange ==
    (Truthy(UUID) /\ Truthy(API_KEY)) =>
        /\ pc \notin InLoopBody
        /\ i = 0 /\ fetched = <<>> /\ log = <<>> /\ details = <<>>
        /\ pc \in BeforeLoop \cup {"send_data_to_backend"} => puts = <<>>
        /\ pc \notin BeforeLoop \cup {"send_data_to_backend"} =>
              /\ Len(puts) = 1
              /\ puts[1].events = <<>>
        /\ pc = "exited" =>
              (exitCode = 0) = (response.type = "Response" /\ response.ok)

\* C10 witness: a configured run performed its PUT of no events and exited 0
EmptyDateRangeWitness ==
    /\ Truthy(UUID) /\ Truthy(API_KEY)
    /\ pc = "exited" /\ exitCode = 0
    /\ puts = <<[variation |-> "Stadtbad Babelsberg", events |-> <<>>]>>

====
